---- MODULE Spec2Model ----
(***************************************************************************)
(* createOrUpdateBranch (src/src/create-or-update-branch.ts) as a state    *)
(* machine over a git repository.                                          *)
(*                                                                         *)
(* The repository is a commit graph (every commit has one parent, 0 for    *)
(* the root), local branches, remote-tracking refs, the heads of the       *)
(* remote, HEAD and the content of the work tree.  One run of the function *)
(* is a sequence of steps, one per awaited gateway call; a second run of   *)
(* the same configuration may follow a run that returned a result.         *)
(***************************************************************************)
EXTENDS Integers, Sequences, FiniteSets, TLC

\* ------------------------------------------------------------------ bounds
\* Commits that base has beyond the commit the branch forked from.
MaxBaseAhead == 3
\* Commits of its own that the pull request branch starts with.
MaxOwn == 2

\* The two ref names of a run: the base and the pull request branch.
BaseName == "main"
BranchName == "updates"
Names == {BaseName, BranchName}

VARIABLES
    parent,     \* commit graph: parent[c] is the parent of commit c (0: none)
    tree,       \* tree[c]: the content (snapshot id) of commit c
    refs,       \* local branches, name -> commit (0: no such branch)
    track,      \* remote-tracking refs refs/remotes/<remote>/<name>
    remote,     \* the heads of the remote's branches (0: no such branch)
    head,       \* HEAD: [ref |-> name, sha |-> 0] or detached [ref |-> "", sha |-> c]
    wt,         \* content of the work tree (0: uncommitted modifications)
    index,      \* content staged in the index
    crlf,       \* the work tree differs from the index by line endings only
    cfg,        \* the arguments: [base, branch, isConfigSync]
    pc,         \* the step the run is at
    loc,        \* the function's locals
    result,     \* the returned CreateOrUpdateBranchResult (valid when pc = "done")
    error,      \* the error a failed run ended with
    second,     \* TRUE in the second of two consecutive runs
    obs         \* what the run did, recorded for the properties

vars == <<parent, tree, refs, track, remote, head, wt, index, crlf, cfg, pc,
          loc, result, error, second, obs>>

\* ----------------------------------------------------------- commit graph
Commits == 1..Len(parent)

RECURSIVE AncIn(_, _)
\* The commits reachable from c (c included) in the graph p.
AncIn(p, c) == IF c = 0 THEN {} ELSE {c} \cup AncIn(p, p[c])

Anc(c) == AncIn(parent, c)

HeadCommit == IF head.ref = "" THEN head.sha ELSE refs[head.ref]

\* A revision as git resolves it: the empty string is HEAD, a name is a
\* local branch.  0 when it does not resolve.
Resolve(name) == IF name = "" THEN HeadCommit ELSE refs[name]

RECURSIVE LogFrom(_, _, _)
\* git log --format=%H of the commits reachable from c and not in excl,
\* newest first.
LogFrom(p, c, excl) ==
    IF c = 0 \/ c \in excl THEN <<>> ELSE <<c>> \o LogFrom(p, p[c], excl)

Reverse(s) == [i \in 1..Len(s) |-> s[Len(s) + 1 - i]]

\* ------------------------------------------------- the function's helpers
\* Lines 11-26: the ref checked out, or the commit of a detached HEAD.
GetWorkingBaseAndType ==
    IF head.ref # ""
    THEN [type |-> "branch", name |-> head.ref, sha |-> 0]
    ELSE [type |-> "commit", name |-> "", sha |-> head.sha]

\* A slip in line 143: the working base compared with base.
SameRef_Base(wb, branch) == wb.type = "branch" /\ wb.name = BaseName

\* workingBase != branch (line 143) is a comparison of strings; the sha of
\* a detached HEAD is never the name of the pull request branch.
SameRef(wb, branch) == wb.type = "branch" /\ wb.name = branch

\* A slip in line 135: the test of base inverted.
MustSupplyBase_BaseGiven(type, base) == type = "commit" /\ base # ""

\* Line 135.
MustSupplyBase(type, base) == type = "commit" /\ base = ""

\* Lines 67-77: git rev-list --right-only --count branch1...branch2.
CommitsAhead(branch1, branch2) ==
    Cardinality(Anc(Resolve(branch2)) \ Anc(Resolve(branch1)))

\* A slip in line 85: >= for >.
IsAhead_OrEqual(branch1, branch2) == CommitsAhead(branch1, branch2) >= 0

\* Lines 80-86.
IsAhead(branch1, branch2) == CommitsAhead(branch1, branch2) > 0

\* Lines 89-99: git rev-list --left-only --count branch1...branch2.
CommitsBehind(branch1, branch2) ==
    Cardinality(Anc(Resolve(branch1)) \ Anc(Resolve(branch2)))

\* Lines 102-108.
IsBehind(branch1, branch2) == CommitsBehind(branch1, branch2) > 0

\* rev-list ends with an error when one side does not resolve.
RevListFails(branch1, branch2) == Resolve(branch1) = 0 \/ Resolve(branch2) = 0

\* A slip in line 63: the list left in the order of git log, newest first.
BuildBranchCommits_NewestFirst(base, branch) ==
    LogFrom(parent, Resolve(branch), Anc(Resolve(base)))

\* Lines 45-64: the shas of base..branch as git log prints them, reversed.
BuildBranchCommits(base, branch) ==
    Reverse(LogFrom(parent, Resolve(branch), Anc(Resolve(base))))

\* A slip in line 171: the reset for every repository that is behind.
ShouldReset_AnyRepository(isConfigSync, behind) == behind

\* A slip in line 171: the reset when the branch is not behind.
ShouldReset_NotBehind(isConfigSync, behind) == isConfigSync /\ ~behind

\* Line 171: the reset is for configuration repositories that are behind.
ShouldReset(isConfigSync, behind) == isConfigSync /\ behind

\* A slip in line 190: the reset to the local base, not origin's.
ResetTarget_LocalBase(base) == Resolve(base)

\* Line 190: the commit of `${baseRemote}/${base}`; "origin/" names nothing.
ResetTarget(base) == IF base = "" THEN 0 ELSE track[base]

\* A slip in line 227: the rebase whether or not the branch is behind.
ShouldRebase_NotSync(isConfigSync, behind) == ~isConfigSync

\* Line 227: the rebase is for the other repositories that are behind.
ShouldRebase(isConfigSync, behind) == ~isConfigSync /\ behind

\* A slip in lines 211-214: every exit code but 0 ends the run.
CommitThrows_AnyFailure(exitCode, nothingToCommit) == exitCode # 0

\* Lines 211-214: the commit results that end the run.
CommitThrows(exitCode, nothingToCommit) == exitCode # 0 /\ ~nothingToCommit

\* A slip in line 249: 'updated' only for a branch that was not created.
FinalAction_KeepCreated(action, hasDiffWithBase) ==
    IF hasDiffWithBase /\ action = "none" THEN "updated" ELSE action

\* Lines 139, 149, 248-249: the action reported.
FinalAction(action, hasDiffWithBase) ==
    IF hasDiffWithBase THEN "updated" ELSE action

\* A slip in line 240: base left as the caller passed it.
ResolveBase_AsPassed(base, wb) == base

\* Line 240.
ResolveBase(base, wb) == IF base # "" THEN base ELSE wb.name

\* Line 196: untracked, unstaged or staged changes.
IsDirty == wt # index \/ index # tree[HeadCommit] \/ crlf

\* A slip in the order of lines 171-217: the commit ahead of the reset.
StepOrder_CommitFirst == <<"commit", "sync", "rebase", "finish">>

\* A slip in the order of lines 195-235: the rebase ahead of the commit.
StepOrder_RebaseFirst == <<"sync", "rebase", "commit", "finish">>

\* Lines 171-237: the order of the steps that follow the fetch of base.
StepOrder == <<"sync", "commit", "rebase", "finish">>

\* The step that follows step.
After(step) ==
    LET i == CHOOSE j \in 1..Len(StepOrder) : StepOrder[j] = step
    IN  StepOrder[i + 1]

\* A slip in line 164: the fetch of base made with allowFailure.
FetchBaseThrows_Tolerant(ok) == FALSE

\* Line 164: git.exec without allowFailure throws when git fails.
FetchBaseThrows(ok) == ~ok

\* ------------------------------------------------------------------- Init
NoResult ==
    [action |-> "", base |-> "", hasDiffWithBase |-> FALSE,
     wasResetOrRebased |-> FALSE, baseSha |-> 0, headSha |-> 0,
     branchCommits |-> <<>>]

NoWorkingBase == [type |-> "", name |-> "", sha |-> 0]

\* Lines 123, 139-140, 163: the locals as a run starts.
InitLoc(base) ==
    [base |-> base, workingBase |-> NoWorkingBase, action |-> "none",
     hasDiffWithBase |-> FALSE, wasResetOrRebased |-> FALSE]

\* What a run has done so far; start is the repository as the run began.
\* ops are the gateway operations issued, failed those of them that failed;
\* commitStep is what line 196 found and commitExit, commitNothing what git
\* commit answered; onBranch is the head of the branch as the divergence
\* steps began and checkedAt as line 227 compared it with base; replayed are
\* the commits a rebase replayed, the copy of replayed[i] being commit
\* replayedAt + i.
InitObs(r, t, h, w, x, n, prev) ==
    [ops |-> <<>>, failed |-> <<>>, probe |-> "none", newCommit |-> 0,
     behindSync |-> -1, behindRebase |-> -1, ownAtOp |-> -1, ownUpAtOp |-> -1,
     commitStep |-> "", commitExit |-> -1, commitNothing |-> FALSE,
     onBranch |-> 0, checkedAt |-> 0, replayed |-> <<>>, replayedAt |-> 0,
     start |-> [refs |-> r, track |-> t, head |-> h, wt |-> w, index |-> x,
                commits |-> n],
     prev |-> prev]

\* A repository as a checkout leaves it, and as a workflow may have changed
\* it since.  Commit 1 is the commit the pull request branch forked from;
\* base has t more commits, known to the remote-tracking ref; the remote's
\* base has one more when it moved since the checkout (moved), the local
\* base has one more when the workflow committed onto it (unpushed); the
\* pull request branch has k commits of its own on commit 1, and is on the
\* remote (pushed), checked out (at = BranchName), or both.
InitRepo(t, moved, unpushed, k, pushed, at, dirt, base, sync) ==
    LET nTrunk == 1 + t
        mId == IF moved THEN nTrunk + 1 ELSE 0
        n1 == nTrunk + (IF moved THEN 1 ELSE 0)
        uId == IF unpushed THEN n1 + 1 ELSE 0
        n2 == n1 + (IF unpushed THEN 1 ELSE 0)
        n == n2 + k
        tip == IF k = 0 THEN 1 ELSE n
        localBase == IF unpushed THEN uId ELSE nTrunk
        r == [x \in Names |->
                 IF x = BaseName THEN localBase
                 ELSE IF at = BranchName THEN tip ELSE 0]
        h == IF at = "" THEN [ref |-> "", sha |-> localBase]
             ELSE [ref |-> at, sha |-> 0]
        hc == IF at = BranchName THEN tip ELSE localBase
        tr == [x \in Names |-> IF x = BaseName THEN nTrunk ELSE 0]
        w == IF dirt = "modified" THEN 0 ELSE hc
    IN  /\ parent = [c \in 1..n |->
                        IF c = 1 THEN 0
                        ELSE IF c <= nTrunk THEN c - 1
                        ELSE IF c = mId \/ c = uId THEN nTrunk
                        ELSE IF c = n2 + 1 THEN 1
                        ELSE c - 1]
        /\ tree = [c \in 1..n |-> c]
        /\ refs = r
        /\ track = tr
        /\ remote = [x \in Names |->
                        IF x = BaseName
                        THEN (IF moved THEN mId ELSE nTrunk)
                        ELSE IF pushed THEN tip ELSE 0]
        /\ head = h
        /\ wt = w
        /\ index = hc
        /\ crlf = (dirt = "crlf")
        /\ cfg = [base |-> base, branch |-> BranchName, isConfigSync |-> sync]
        /\ pc = "start"
        /\ loc = InitLoc(base)
        /\ result = NoResult
        /\ error = ""
        /\ second = FALSE
        /\ obs = InitObs(r, tr, h, w, hc, n, NoResult)

Init ==
    \E t \in 0..MaxBaseAhead, k \in 0..MaxOwn,
       moved \in BOOLEAN, unpushed \in BOOLEAN, pushed \in BOOLEAN,
       at \in {BaseName, BranchName, ""},
       dirt \in {"clean", "modified", "crlf"},
       base \in {"", BaseName}, sync \in BOOLEAN :
        \* a branch that is neither pushed nor checked out does not exist
        /\ (~pushed /\ at # BranchName) => k = 0
        /\ InitRepo(t, moved, unpushed, k, pushed, at, dirt, base, sync)

\* ------------------------------------------------------------------ steps
repo == <<parent, tree, refs, track, remote, head, wt, index, crlf>>

\* The record of a run after gateway operation op, which went well or not.
Noted(o, op, ok) ==
    [o EXCEPT !.ops = Append(@, op),
              !.failed = IF ok THEN @ ELSE Append(@, op)]

\* Lines 133-137.
ResolveWorkingBase ==
    /\ pc = "start"
    /\ LET wb == GetWorkingBaseAndType IN
        /\ loc' = [loc EXCEPT !.workingBase = wb]
        /\ IF MustSupplyBase(wb.type, loc.base)
           THEN pc' = "failed" /\ error' = "config"
           ELSE pc' = "ensure" /\ error' = error
    /\ UNCHANGED <<repo, cfg, result, second, obs>>

\* git.fetch of a branch of the remote: it can succeed only when the remote
\* has the branch, and it can always fail.
FetchOutcomes(branch) == IF remote[branch] # 0 THEN BOOLEAN ELSE {FALSE}

\* Lines 28-43 and 144: the probe of the branch remote.  A fetch that
\* succeeds writes the remote-tracking ref; any failure is the answer false.
TryFetch ==
    /\ pc = "ensure"
    /\ ~SameRef(loc.workingBase, cfg.branch)
    /\ \E ok \in FetchOutcomes(cfg.branch) :
        /\ track' = IF ok THEN [track EXCEPT ![cfg.branch] = remote[cfg.branch]]
                    ELSE track
        /\ pc' = IF ok THEN "checkoutExisting" ELSE "checkoutNew"
        /\ obs' = [Noted(obs, "probe", ok) EXCEPT
                       !.probe = IF ok THEN "exists" ELSE "absent"]
    /\ UNCHANGED <<parent, tree, refs, remote, head, wt, index, crlf, cfg,
                   loc, result, error, second>>

\* Line 143, the branch is the working base: nothing to probe or check out.
BranchIsWorkingBase ==
    /\ pc = "ensure"
    /\ SameRef(loc.workingBase, cfg.branch)
    /\ pc' = "fetchBase"
    /\ UNCHANGED <<repo, cfg, loc, result, error, second, obs>>

\* git checkout <branch>, or git checkout -B <branch> <startPoint> when a
\* start point is given: the commit the branch is at afterwards.  Without a
\* start point git takes the local branch, else the remote-tracking one.
CheckoutTarget(branch, startPoint) ==
    IF startPoint # "" THEN Resolve(startPoint)
    ELSE IF refs[branch] # 0 THEN refs[branch]
    ELSE track[branch]

\* The checkout itself.  Local modifications are carried to the new commit
\* when git can (carry), and the checkout fails when it cannot.
Checkout(branch, startPoint, carry, action) ==
    LET target == CheckoutTarget(branch, startPoint)
        clean == wt = tree[HeadCommit] /\ index = tree[HeadCommit]
    IN  IF \/ target = 0
           \/ (~clean /\ tree[target] # tree[HeadCommit] /\ ~carry)
        THEN /\ pc' = "failed" /\ error' = "gateway"
             /\ obs' = Noted(obs, "checkout", FALSE)
             /\ UNCHANGED <<refs, head, wt, index, loc>>
        ELSE /\ refs' = [refs EXCEPT ![branch] = target]
             /\ head' = [ref |-> branch, sha |-> 0]
             /\ wt' = IF wt = tree[HeadCommit] THEN tree[target] ELSE wt
             /\ index' = IF index = tree[HeadCommit] THEN tree[target]
                         ELSE index
             /\ loc' = [loc EXCEPT !.action = action]
             /\ obs' = Noted(obs, "checkout", TRUE)
             /\ pc' = "fetchBase" /\ error' = error

\* Lines 145-150: the branch does not exist, create it at base.
CheckoutNew ==
    /\ pc = "checkoutNew"
    /\ \E carry \in BOOLEAN : Checkout(cfg.branch, loc.base, carry, "created")
    /\ UNCHANGED <<parent, tree, track, remote, crlf, cfg, result, second>>

\* Lines 153-158: the branch exists, check it out.
CheckoutExisting ==
    /\ pc = "checkoutExisting"
    /\ \E carry \in BOOLEAN : Checkout(cfg.branch, "", carry, loc.action)
    /\ UNCHANGED <<parent, tree, track, remote, crlf, cfg, result, second>>

\* Line 164: git fetch origin <base>, a mandatory step.  It updates the
\* remote-tracking ref of base (an empty base fetches the remote's HEAD
\* and updates none).
FetchBase ==
    /\ pc = "fetchBase"
    /\ \E ok \in BOOLEAN :
        /\ track' = IF ok /\ loc.base # ""
                    THEN [track EXCEPT ![loc.base] = remote[loc.base]]
                    ELSE track
        /\ IF FetchBaseThrows(ok)
           THEN pc' = "failed" /\ error' = "gateway"
           ELSE pc' = StepOrder[1] /\ error' = error
        /\ obs' = [Noted(obs, "fetch", ok) EXCEPT !.onBranch = HeadCommit]
    /\ UNCHANGED <<parent, tree, refs, remote, head, wt, index, crlf, cfg,
                   loc, result, second>>

\* The commits reachable from commit a and not from commit b.
Lacking(a, b) == Anc(a) \ Anc(b)

\* Lines 171-193: the divergence policy of configuration repositories.
\* git reset --soft moves the branch checked out and leaves index and work
\* tree as they are.
ConfigSync ==
    /\ pc = "sync"
    /\ IF cfg.isConfigSync /\ RevListFails(loc.base, cfg.branch)
       THEN /\ pc' = "failed" /\ error' = "gateway"
            /\ obs' = [obs EXCEPT !.failed = Append(@, "rev-list")]
            /\ UNCHANGED <<refs, loc>>
       ELSE LET seen == [obs EXCEPT !.behindSync =
                            IF cfg.isConfigSync
                            THEN Cardinality(Lacking(Resolve(loc.base),
                                                     Resolve(cfg.branch)))
                            ELSE -1]
            IN  IF ShouldReset(cfg.isConfigSync, IsBehind(loc.base, cfg.branch))
                THEN LET target == ResetTarget(loc.base) IN
                     IF target = 0
                     THEN /\ pc' = "failed" /\ error' = "gateway"
                          /\ obs' = Noted(seen, "reset", FALSE)
                          /\ UNCHANGED <<refs, loc>>
                     ELSE /\ refs' = [refs EXCEPT ![head.ref] = target]
                          /\ loc' = [loc EXCEPT !.wasResetOrRebased = TRUE]
                          /\ obs' = [Noted(seen, "reset", TRUE) EXCEPT
                                 !.ownAtOp = Cardinality(
                                     Lacking(HeadCommit, Resolve(loc.base))),
                                 !.ownUpAtOp = Cardinality(
                                     Lacking(HeadCommit, target))]
                          /\ pc' = After("sync") /\ error' = error
                ELSE /\ pc' = After("sync") /\ error' = error
                     /\ obs' = seen
                     /\ UNCHANGED <<refs, loc>>
    /\ UNCHANGED <<parent, tree, track, remote, head, wt, index, crlf, cfg,
                   result, second>>

\* Lines 196-217: stage and commit.  The exit code of git add is ignored
\* (line 204), so that the commit is of what the index has by then.  git
\* answers "nothing to commit" when index and work tree have the content of
\* HEAD (the changes were line endings); it makes no commit either when
\* nothing is staged, and it may end with another error.
CommitChanges ==
    /\ pc = "commit"
    /\ IsDirty
    /\ \E added, made \in BOOLEAN :
        LET staged == IF added THEN wt ELSE index
            nothing == staged = tree[HeadCommit] /\ wt = staged
            exitCode == IF staged = tree[HeadCommit] \/ ~made THEN 1 ELSE 0
            n == Len(parent) + 1
            content == IF staged = 0 THEN n ELSE staged
            seen == [Noted(Noted(obs, "add", added), "commit",
                           exitCode = 0 \/ nothing)
                        EXCEPT !.commitStep = "dirty",
                               !.commitExit = exitCode,
                               !.commitNothing = nothing]
        IN  IF CommitThrows(exitCode, nothing)
            THEN /\ pc' = "failed" /\ error' = "commit"
                 /\ index' = staged
                 /\ obs' = seen
                 /\ UNCHANGED <<parent, tree, refs, wt>>
            ELSE /\ pc' = After("commit") /\ error' = error
                 /\ IF exitCode = 0
                    THEN /\ parent' = Append(parent, HeadCommit)
                         /\ tree' = Append(tree, content)
                         /\ refs' = [refs EXCEPT ![head.ref] = n]
                         /\ index' = content
                         /\ wt' = IF wt = staged THEN content ELSE wt
                         /\ obs' = [seen EXCEPT !.newCommit = n]
                    ELSE /\ index' = staged
                         /\ obs' = seen
                         /\ UNCHANGED <<parent, tree, refs, wt>>
    /\ UNCHANGED <<track, remote, head, crlf, cfg, loc, result, second>>

\* Line 196, nothing to commit: no add, no commit.
NoChanges ==
    /\ pc = "commit"
    /\ ~IsDirty
    /\ pc' = After("commit")
    /\ obs' = [obs EXCEPT !.commitStep = "clean"]
    /\ UNCHANGED <<repo, cfg, loc, result, error, second>>

\* Lines 227-235: the divergence policy of the other repositories.
\* git pull --rebase origin <base> fetches the remote's base and replays on
\* it the commits of the branch that it lacks (a branch that has none is
\* fast-forwarded, one that has all of the remote's base is left alone).
\* The replay may end in a conflict, and git may refuse to start with
\* local changes that are not committed (goes = FALSE).
Rebase ==
    /\ pc = "rebase"
    /\ IF ~cfg.isConfigSync /\ RevListFails(loc.base, cfg.branch)
       THEN /\ pc' = "failed" /\ error' = "gateway"
            /\ obs' = [obs EXCEPT !.failed = Append(@, "rev-list")]
            /\ UNCHANGED <<parent, tree, refs, track, wt, index, loc>>
       ELSE LET seen == [obs EXCEPT
                            !.behindRebase =
                                IF ~cfg.isConfigSync
                                THEN Cardinality(Lacking(Resolve(loc.base),
                                                         Resolve(cfg.branch)))
                                ELSE -1,
                            !.checkedAt =
                                IF ~cfg.isConfigSync THEN Resolve(cfg.branch)
                                ELSE 0]
            IN  IF ShouldRebase(cfg.isConfigSync, IsBehind(loc.base, cfg.branch))
                THEN \E goes \in BOOLEAN :
                     LET up == IF loc.base = "" THEN 0 ELSE remote[loc.base]
                         cur == HeadCommit
                         own == Reverse(LogFrom(parent, cur, Anc(up)))
                         n == Len(parent)
                         k == Len(own)
                         replay == ~(Anc(up) \subseteq Anc(cur)) /\ k > 0
                         changed == wt # index \/ index # tree[cur]
                         tip == IF Anc(up) \subseteq Anc(cur) THEN cur
                                ELSE IF k = 0 THEN up ELSE n + k
                     IN  IF up = 0 \/ ((replay \/ changed) /\ ~goes)
                         THEN /\ pc' = "failed" /\ error' = "gateway"
                              /\ obs' = Noted(seen, "pull", FALSE)
                              /\ UNCHANGED <<parent, tree, refs, track, wt,
                                             index, loc>>
                         ELSE /\ parent' = IF replay
                                           THEN parent \o [i \in 1..k |->
                                                  IF i = 1 THEN up ELSE n + i - 1]
                                           ELSE parent
                              /\ tree' = IF replay
                                         THEN tree \o [i \in 1..k |-> n + i]
                                         ELSE tree
                              /\ refs' = [refs EXCEPT ![head.ref] = tip]
                              /\ track' = [track EXCEPT ![loc.base] = up]
                              /\ wt' = IF wt = tree[cur] THEN tree'[tip] ELSE wt
                              /\ index' = IF index = tree[cur] THEN tree'[tip]
                                          ELSE index
                              /\ loc' = [loc EXCEPT !.wasResetOrRebased = TRUE]
                              /\ obs' = [Noted(seen, "pull", TRUE) EXCEPT
                                     !.ownAtOp = Cardinality(
                                         Lacking(cur, Resolve(loc.base))),
                                     !.ownUpAtOp = k,
                                     !.replayed = IF replay THEN own ELSE <<>>,
                                     !.replayedAt = n]
                              /\ pc' = After("rebase") /\ error' = error
                ELSE /\ pc' = After("rebase") /\ error' = error
                     /\ obs' = seen
                     /\ UNCHANGED <<parent, tree, refs, track, wt, index, loc>>
    /\ UNCHANGED <<remote, head, crlf, cfg, result, second>>

\* Lines 237-262: the result.
Finish ==
    /\ pc = "finish"
    /\ LET base == ResolveBase(loc.base, loc.workingBase) IN
       IF \/ RevListFails(loc.base, cfg.branch)
          \/ Resolve(base) = 0
       THEN /\ pc' = "failed" /\ error' = "gateway"
            /\ obs' = [obs EXCEPT !.failed = Append(@, "rev-list")]
            /\ UNCHANGED <<loc, result>>
       ELSE LET hasDiffWithBase == IsAhead(loc.base, cfg.branch)
                action == FinalAction(loc.action, hasDiffWithBase)
            IN  /\ loc' = [loc EXCEPT !.base = base, !.action = action,
                                      !.hasDiffWithBase = hasDiffWithBase]
                /\ result' =
                     [action |-> action,
                      base |-> base,
                      hasDiffWithBase |-> hasDiffWithBase,
                      wasResetOrRebased |-> loc.wasResetOrRebased,
                      baseSha |-> Resolve(base),
                      headSha |-> Resolve(cfg.branch),
                      branchCommits |->
                          IF hasDiffWithBase
                          THEN BuildBranchCommits(base, cfg.branch)
                          ELSE <<>>]
                /\ obs' = obs
                /\ pc' = "done" /\ error' = error
    /\ UNCHANGED <<repo, cfg, second>>

\* Line 120: the function is called again, with the same arguments and the
\* repository as the first run left it.
Rerun ==
    /\ pc = "done"
    /\ ~second
    /\ second' = TRUE
    /\ pc' = "start"
    /\ loc' = InitLoc(cfg.base)
    /\ obs' = InitObs(refs, track, head, wt, index, Len(parent), result)
    /\ result' = NoResult
    /\ UNCHANGED <<repo, cfg, error>>

Next ==
    \/ ResolveWorkingBase
    \/ TryFetch
    \/ BranchIsWorkingBase
    \/ CheckoutNew
    \/ CheckoutExisting
    \/ FetchBase
    \/ ConfigSync
    \/ CommitChanges
    \/ NoChanges
    \/ Rebase
    \/ Finish
    \/ Rerun

Spec == Init /\ [][Next]_vars

\* ------------------------------------------------------------- properties
Returned == pc = "done"

\* The work tree had uncommitted modifications as the run began.
StartedDirty == obs.start.wt = 0

\* C1: a run that returns after the probe of the branch remote failed
\* reports action 'created', and base is an ancestor of (or is) the head of
\* the branch.
C1_AbsentBranchIsCreated ==
    (Returned /\ obs.probe = "absent") =>
        /\ result.action = "created"
        /\ result.baseSha \in Anc(result.headSha)

\* C2: in every returned result, action = 'updated' exactly when
\* hasDiffWithBase is true.
C2_UpdatedIffDiff ==
    Returned => (result.action = "updated" <=> result.hasDiffWithBase)

\* C2's case: a branch that was created and is reported as updated.
C2_Witness ==
    /\ Returned /\ obs.probe = "absent"
    /\ result.hasDiffWithBase /\ result.action = "updated"

\* C3: the second of two consecutive runs with the same configuration and
\* an untouched work tree returns action 'none'.
C3_SecondRunNone ==
    (Returned /\ second) => result.action = "none"

\* C4: in a configuration repository whose branch is behind base at the
\* check of line 171, wasResetOrRebased is set and, right after the reset
\* and before the commit step, the branch is at the commit of origin/base.
C4_ResetToOriginBase ==
    /\ (pc = "commit" /\ cfg.isConfigSync /\ obs.behindSync > 0) =>
          /\ loc.wasResetOrRebased
          /\ refs[cfg.branch] = track[loc.base]
          /\ HeadCommit = track[loc.base]
    /\ (Returned /\ cfg.isConfigSync /\ obs.behindSync > 0) =>
          result.wasResetOrRebased

\* C4's case: the reset has just moved the branch, and origin/base is not
\* the commit of the local base.
C4_Witness ==
    /\ pc = "commit" /\ cfg.isConfigSync /\ obs.behindSync > 0
    /\ track[loc.base] # refs[loc.base]
    /\ refs[cfg.branch] = track[loc.base]

\* C5: in the other repositories, a run that found the branch behind base
\* at the check of line 227 and returns has wasResetOrRebased set, and
\* every commit reachable from base is reachable from the head of the
\* branch.
C5_RebasedContainsBase ==
    (Returned /\ ~cfg.isConfigSync /\ obs.behindRebase > 0) =>
        /\ result.wasResetOrRebased
        /\ Anc(result.baseSha) \subseteq Anc(result.headSha)

\* C6: when the branch exists upstream and its head ends as the commit of
\* base, the result has hasDiffWithBase false, action 'none' and no
\* branch commits.
C6_IdenticalToBaseIsNone ==
    (/\ Returned
     /\ remote[cfg.branch] # 0 /\ obs.probe # "absent"
     /\ result.headSha = result.baseSha) =>
        /\ ~result.hasDiffWithBase
        /\ result.action = "none"
        /\ result.branchCommits = <<>>

\* C6's case: the probe found the branch and the run left it at base.
C6_Witness ==
    /\ Returned /\ obs.probe = "exists"
    /\ result.headSha = result.baseSha
    /\ result.action = "none"

\* Nothing of the repository has changed since the run began.
Untouched ==
    /\ refs = obs.start.refs
    /\ track = obs.start.track
    /\ head = obs.start.head
    /\ wt = obs.start.wt
    /\ index = obs.start.index
    /\ Len(parent) = obs.start.commits

\* C7: with a detached HEAD and no base the run ends with the
\* configuration error, no gateway operation was issued, and refs, index
\* and work tree are as they were.
C7_DetachedNoBaseFails ==
    (obs.start.head.ref = "" /\ cfg.base = "") =>
        /\ pc \in {"start", "failed"}
        /\ pc = "failed" => error = "config"
        /\ obs.ops = <<>>
        /\ Untouched

\* C7's case: the run has ended with the configuration error.
C7_Witness ==
    /\ obs.start.head.ref = "" /\ cfg.base = ""
    /\ pc = "failed" /\ error = "config"

\* C8 as stated: wasResetOrRebased is true only if the branch had a commit
\* of its own (one that base, local or origin's, does not reach) when the
\* reset or the rebase was issued.
C8_OnlyWithOwnCommits ==
    (Returned /\ result.wasResetOrRebased) =>
        (obs.ownAtOp > 0 \/ obs.ownUpAtOp > 0)

\* C8 as amended: wasResetOrRebased is true only if the branch was behind
\* base (base reached a commit that the branch did not) at the check that
\* precedes the reset or the rebase; a branch that is at base or only ahead
\* of it never yields it.
C8_OnlyWhenBehind ==
    (Returned /\ result.wasResetOrRebased) =>
        (obs.behindSync > 0 \/ obs.behindRebase > 0)

\* C8's case: a branch with no commit of its own that lagged base was
\* reset or rebased, and the result says so.
C8_Witness ==
    /\ Returned /\ result.wasResetOrRebased
    /\ obs.ownAtOp = 0 /\ obs.ownUpAtOp = 0

\* The scenario of C9: a configuration repository, the branch on the
\* remote (found by the probe, or checked out already) with 2 commits of
\* its own and 3 commits behind base (origin's base being the commit of the
\* local base), a dirty work tree.
Scenario9 ==
    /\ cfg.isConfigSync /\ cfg.base = BaseName /\ ~second
    /\ remote[BranchName] # 0 /\ obs.probe # "absent"
    /\ StartedDirty
    /\ remote[BaseName] = obs.start.refs[BaseName]
    /\ Cardinality(Lacking(obs.start.refs[BaseName], remote[BranchName])) = 3
    /\ Cardinality(Lacking(remote[BranchName], obs.start.refs[BaseName])) = 2

\* C9: in that scenario the run resets the branch to base, adds one
\* commit, and returns wasResetOrRebased and hasDiffWithBase true with
\* branchCommits holding that one commit and no other.
C9_ConfigSyncScenario ==
    (Returned /\ Scenario9) =>
        /\ result.wasResetOrRebased
        /\ result.hasDiffWithBase
        /\ \E i \in 1..Len(obs.ops) : obs.ops[i] = "reset"
        /\ obs.newCommit > obs.start.commits
        /\ Len(parent) = obs.start.commits + 1
        /\ parent[obs.newCommit] = obs.start.refs[BaseName]
        /\ result.headSha = obs.newCommit
        /\ result.branchCommits = <<obs.newCommit>>

\* C9's case: the scenario's run has returned.
C9_Witness ==
    /\ Returned /\ Scenario9 /\ obs.probe = "exists"
    /\ Len(result.branchCommits) = 1

\* The scenario of C10: base checked out, the branch not on the remote, a
\* modified file, not a configuration repository.
Scenario10 ==
    /\ ~cfg.isConfigSync /\ cfg.base = BaseName /\ ~second
    /\ obs.start.head.ref = BaseName
    /\ remote[BranchName] = 0
    /\ StartedDirty

\* C10: in that scenario the run adds one commit on the new branch and
\* returns action 'created', hasDiffWithBase true and one branch commit.
C10_NewBranchScenario ==
    (Returned /\ Scenario10) =>
        /\ result.action = "created"
        /\ result.hasDiffWithBase
        /\ Len(parent) = obs.start.commits + 1
        /\ Len(result.branchCommits) = 1

\* C11: the branchCommits of a returned result are empty unless
\* hasDiffWithBase is true, and then they are exactly the commits reachable
\* from the head of the branch and not from base, each listed once, an
\* ancestor before its descendants.
C11_BranchCommitsAreTheRange ==
    Returned =>
        LET bc == result.branchCommits IN
        /\ bc # <<>> => result.hasDiffWithBase
        /\ result.hasDiffWithBase =>
            /\ {bc[i] : i \in 1..Len(bc)} =
                   Lacking(result.headSha, result.baseSha)
            /\ \A i, j \in 1..Len(bc) :
                   /\ (i # j) => bc[i] # bc[j]
                   /\ (i < j) => bc[i] \in Anc(bc[j])

\* A result that lists two commits or more.
C11_Witness ==
    /\ Returned
    /\ result.hasDiffWithBase
    /\ Len(result.branchCommits) >= 2

\* C12: the base of a returned result is never empty: it is the base the
\* caller passed, and when the caller passed none it is the branch that
\* was checked out as the run began.
C12_ResultBaseIsSet ==
    Returned =>
        /\ result.base # ""
        /\ cfg.base # "" => result.base = cfg.base
        /\ cfg.base = "" => /\ obs.start.head.ref # ""
                            /\ result.base = obs.start.head.ref

\* A run without a base that began on the base branch and returned.
C12_Witness ==
    /\ Returned
    /\ cfg.base = ""
    /\ obs.start.head.ref = BaseName
    /\ result.base = BaseName

\* The gateway operations of the run that failed, in order.
Failures == {obs.failed[i] : i \in 1..Len(obs.failed)}

LastFailure == obs.failed[Len(obs.failed)]

C13_AddWitness ==
    /\ Returned
    /\ "add" \in Failures

\* C14: the step that stages and commits.  With changes in the selected
\* paths git add and git commit are issued, once each: a commit made, or
\* the answer 'nothing to commit', lets the run continue, and any other
\* exit code but 0 ends it with the commit's error.  Without changes
\* neither is issued and nothing is committed.
C14_CommitStep ==
    [][pc = "commit" =>
         IF wt # index \/ index # tree[HeadCommit] \/ crlf
         THEN /\ obs'.ops = obs.ops \o <<"add", "commit">>
              /\ IF obs'.commitExit = 0
                 THEN /\ pc' = "rebase" /\ error' = error
                      /\ Len(parent') = Len(parent) + 1
                      /\ refs'[head.ref] = Len(parent')
                 ELSE IF obs'.commitNothing
                 THEN /\ pc' = "rebase" /\ error' = error
                      /\ parent' = parent /\ refs' = refs
                 ELSE /\ pc' = "failed" /\ error' = "commit"
                      /\ parent' = parent /\ refs' = refs
         ELSE /\ obs'.ops = obs.ops
              /\ pc' = "rebase" /\ error' = error
              /\ parent' = parent /\ refs' = refs
      ]_vars

\* git commit answered 'nothing to commit' and the run returned a result.
C14_Witness ==
    /\ Returned
    /\ obs.commitStep = "dirty"
    /\ obs.commitExit # 0
    /\ obs.commitNothing

\* How often gateway operation op was issued in the run.
Issued(op) == Cardinality({i \in 1..Len(obs.ops) : obs.ops[i] = op})

\* Commit c is on the branch checked out, itself or as the copy that the
\* rebase of this run made of it.
Kept(c) ==
    \/ c \in Anc(HeadCommit)
    \/ \E i \in 1..Len(obs.replayed) :
           obs.replayed[i] = c /\ obs.replayedAt + i \in Anc(HeadCommit)

\* C15: a run issues at most one of reset and rebase, the reset only with
\* isConfigSync and the rebase only without, and a run without
\* isConfigSync keeps every commit that was on the branch, as it is or
\* replayed.
C15_OneDivergenceAction ==
    /\ Issued("reset") + Issued("pull") <= 1
    /\ Issued("reset") > 0 => cfg.isConfigSync
    /\ Issued("pull") > 0 => ~cfg.isConfigSync
    /\ ~cfg.isConfigSync =>
           /\ \A c \in Anc(obs.onBranch) : Kept(c)
           /\ head.ref = BranchName =>
                  \A c \in Anc(obs.start.refs[BranchName]) : Kept(c)

\* A run without isConfigSync that replayed commits the branch had as the
\* run began.
C15_Witness ==
    /\ Returned
    /\ ~cfg.isConfigSync
    /\ Issued("pull") = 1
    /\ \E i \in 1..Len(obs.replayed) :
           /\ obs.replayed[i] \in Anc(obs.onBranch)
           /\ obs.replayed[i] \notin Anc(HeadCommit)

\* Gateway operation a was issued before gateway operation b.
IssuedBefore(a, b) ==
    \E i, j \in 1..Len(obs.ops) :
        i < j /\ obs.ops[i] = a /\ obs.ops[j] = b

\* C16: in a run without isConfigSync that made a commit and then rebased,
\* the commit was made before the branch was compared with base and before
\* the rebase: it is among the commits that a replay replays, and it is
\* reachable from the head of the branch, and from the head that the
\* result returns, itself or as its replayed copy.
C16_CommitIsRebased ==
    (/\ ~cfg.isConfigSync
     /\ obs.newCommit # 0
     /\ Issued("pull") = 1
     /\ "pull" \notin Failures) =>
        /\ IssuedBefore("commit", "pull")
        /\ ~IssuedBefore("pull", "commit")
        /\ obs.checkedAt = obs.newCommit
        /\ obs.replayed # <<>> =>
               \E i \in 1..Len(obs.replayed) : obs.replayed[i] = obs.newCommit
        /\ Kept(obs.newCommit)
        /\ Returned => result.headSha = HeadCommit

\* A returned run whose new commit was replayed on origin's base.
C16_Witness ==
    /\ Returned
    /\ ~cfg.isConfigSync
    /\ obs.newCommit # 0
    /\ obs.newCommit \notin Anc(result.headSha)
    /\ \E i \in 1..Len(obs.replayed) :
           /\ obs.replayed[i] = obs.newCommit
           /\ obs.replayedAt + i \in Anc(result.headSha)

\* The run is past the step that ensures the branch (lines 143-160).
PastEnsure ==
    \/ pc \in {"fetchBase", "sync", "commit", "rebase", "finish", "done"}
    \/ pc = "failed" /\ error # "config"

\* C17: the probe and the checkout are issued, once each, exactly in the
\* runs whose branch is not the ref checked out as the run began: after a
\* probe that failed the branch is new and at base, after one that
\* succeeded it is the existing branch.  The fetch of base is issued once
\* in every run that gets past that step, also when the branch is the ref
\* checked out, and before every comparison with base, reset, add, commit
\* and rebase.
C17_ProbeGatedFetchAlways ==
    LET differs == obs.start.head.ref # cfg.branch IN
    /\ Issued("probe") <= 1 /\ Issued("checkout") <= Issued("probe")
    /\ Issued("probe") = 1 => differs
    /\ PastEnsure => /\ Issued("probe") = 1 <=> differs
                     /\ Issued("checkout") = Issued("probe")
    /\ (pc = "fetchBase" /\ obs.probe = "absent") =>
           /\ head.ref = cfg.branch
           /\ refs[cfg.branch] = Resolve(cfg.base)
           /\ loc.action = "created"
    /\ (pc = "fetchBase" /\ obs.probe = "exists") =>
           /\ head.ref = cfg.branch
           /\ refs[cfg.branch] = remote[cfg.branch]
           /\ loc.action = "none"
    /\ Issued("fetch") <= 1
    /\ (pc \in {"sync", "commit", "rebase", "finish", "done"}
          \/ obs.behindSync >= 0 \/ obs.behindRebase >= 0) =>
           Issued("fetch") = 1
    /\ \A op \in {"reset", "add", "commit", "pull"} :
           Issued(op) > 0 => /\ IssuedBefore("fetch", op)
                             /\ ~IssuedBefore(op, "fetch")
    /\ \A op \in {"probe", "checkout"} :
           Issued(op) > 0 => ~IssuedBefore("fetch", op)

\* A run on the pull request branch itself: no probe, no checkout, and the
\* fetch of base all the same.
C17_Witness ==
    /\ Returned
    /\ obs.start.head.ref = cfg.branch
    /\ Issued("probe") = 0
    /\ Issued("checkout") = 0
    /\ Issued("fetch") = 1
    /\ Issued("commit") = 1

\* C18: in every returned result hasDiffWithBase is true exactly when the
\* head of the branch has a commit that the base of the result does not
\* reach, also when the caller passed no base.
C18_HasDiffAgreesWithResultBase ==
    Returned =>
        (result.hasDiffWithBase <=>
             Lacking(result.headSha, result.baseSha) # {})

\* C19: in a run with isConfigSync the reset is issued before the commit
\* is made and never after it, so that a commit that the run made is
\* reachable from the head of the branch, and from the head that the
\* result returns.
C19_CommitSurvivesReset ==
    cfg.isConfigSync =>
        /\ ~IssuedBefore("commit", "reset")
        /\ Issued("pull") = 0
        /\ obs.newCommit # 0 =>
               /\ obs.behindSync >= 0
               /\ obs.newCommit \in Anc(HeadCommit)
               /\ Returned => obs.newCommit \in Anc(result.headSha)

\* A run with isConfigSync that reset the branch, committed and returned.
C19_Witness ==
    /\ Returned
    /\ cfg.isConfigSync
    /\ IssuedBefore("reset", "commit")
    /\ obs.newCommit # 0
    /\ obs.newCommit \in Anc(result.headSha)

====
